---------------------------- MODULE Spec2Model ----------------------------
(***************************************************************************)
(* A model of src/app.py: the Flask handlers of the persons API (CSV bulk  *)
(* import, list, get, update, delete) over a Firestore collection and an   *)
(* uploads directory.                                                      *)
(*                                                                         *)
(* Text is a sequence of one-character strings, so that the conversions    *)
(* the code applies to it (int(), bool(), lower(), rsplit(),               *)
(* secure_filename()) are computed character by character.  A Python value *)
(* is a record [t, i, s]: its type tag, its number (an int, a bool as 0/1, *)
(* a finite float in tenths) and its text.                                 *)
(***************************************************************************)
EXTENDS Integers, Sequences, FiniteSets, TLC

(***************************************************************************)
(* Bounds of the model.                                                    *)
(***************************************************************************)
MaxRows == 3        \* data rows of an uploaded table
MaxRequests == 3    \* requests served in one behaviour of the threaded server
MaxTotal == 25      \* documents in the collection when it is listed
MaxLimit == 12      \* largest limit argument of a list request (and 50)
MaxPage == 3        \* largest page argument of a list request

(***************************************************************************)
(* Python values.                                                          *)
(***************************************************************************)
PyIntV(n) == [t |-> "int", i |-> n, s |-> <<>>]
PyBoolV(b) == [t |-> "bool", i |-> IF b THEN 1 ELSE 0, s |-> <<>>]
PyFloatV(tenths) == [t |-> "float", i |-> tenths, s |-> <<>>]
PyStrV(chars) == [t |-> "str", i |-> 0, s |-> chars]
PyNaN == [t |-> "nan", i |-> 0, s |-> <<>>]
PyInf == [t |-> "inf", i |-> 0, s |-> <<>>]
\* the value of a key the dictionary does not hold
PyAbsent == [t |-> "absent", i |-> 0, s |-> <<>>]

Digits == <<"0", "1", "2", "3", "4", "5", "6", "7", "8", "9">>

IsDigit(c) == \E k \in 1..10 : Digits[k] = c

DigitVal(c) == (CHOOSE k \in 1..10 : Digits[k] = c) - 1

RECURSIVE DecimalValue(_)
DecimalValue(chars) ==
    IF chars = <<>> THEN 0
    ELSE 10 * DecimalValue(SubSeq(chars, 1, Len(chars) - 1))
         + DigitVal(chars[Len(chars)])

\* int(x) of Python: the integer, or the exception it raises.
PyInt(v) ==
    CASE v.t = "int" -> [err |-> "none", val |-> v.i]
      [] v.t = "bool" -> [err |-> "none", val |-> v.i]
      [] v.t = "float" -> [err |-> "none",
                           val |-> IF v.i >= 0 THEN v.i \div 10
                                   ELSE -((-v.i) \div 10)]
      [] v.t = "nan" -> [err |-> "ValueError", val |-> 0]
      [] v.t = "inf" -> [err |-> "OverflowError", val |-> 0]
      [] v.t = "str" ->
            LET neg == Len(v.s) > 0 /\ v.s[1] = "-"
                body == IF neg THEN Tail(v.s) ELSE v.s
            IN  IF body # <<>> /\ \A k \in 1..Len(body) : IsDigit(body[k])
                THEN [err |-> "none",
                      val |-> IF neg THEN -DecimalValue(body)
                              ELSE DecimalValue(body)]
                ELSE [err |-> "ValueError", val |-> 0]
      [] OTHER -> [err |-> "TypeError", val |-> 0]

\* bool(x) of Python: truthiness; it raises for none of these values.
PyBool(v) ==
    CASE v.t = "int" -> v.i # 0
      [] v.t = "bool" -> v.i = 1
      [] v.t = "float" -> v.i # 0
      [] v.t = "str" -> Len(v.s) > 0
      [] v.t = "nan" -> TRUE
      [] v.t = "inf" -> TRUE
      [] OTHER -> FALSE

(***************************************************************************)
(* validate_persona_data.  A row dictionary is [fields, age, status]: the  *)
(* keys it holds and the values of the two keys the code converts; the     *)
(* other eight values are copied verbatim and never read.                  *)
(***************************************************************************)
required_fields ==
    <<"name", "last_name", "email", "age", "sex",
      "address", "country", "degree", "university", "status">>

RequiredSet == {required_fields[k] : k \in 1..Len(required_fields)}

Row(fields, age, status) ==
    [fields |-> fields,
     age |-> IF "age" \in fields THEN age ELSE PyAbsent,
     status |-> IF "status" \in fields THEN status ELSE PyAbsent]

MissingFields(data) ==
    {k \in 1..Len(required_fields) : required_fields[k] \notin data.fields}

FirstMissing(data) ==
    required_fields[CHOOSE k \in MissingFields(data) :
                        \A j \in MissingFields(data) : k <= j]

\* line 58: both branches of the isinstance test apply bool().
CoerceStatus(v) == IF v.t = "str" THEN PyBool(v) ELSE PyBool(v)

\* validate_persona_data without lines 55-60: a row whose keys are all there is
\* valid as it is
validate_without_conversion(data) ==
    IF MissingFields(data) # {}
    THEN [ok |-> FALSE, kind |-> "missing", field |-> FirstMissing(data),
          raised |-> "none", data |-> data]
    ELSE [ok |-> TRUE, kind |-> "valid", field |-> "none", raised |-> "none",
          data |-> data]

\* The result: ok and message as returned, data as the dictionary is left
\* (it is converted in place), raised the exception that escapes the call.
validate_persona_data(data) ==
    IF MissingFields(data) # {}
    THEN [ok |-> FALSE, kind |-> "missing", field |-> FirstMissing(data),
          raised |-> "none", data |-> data]
    ELSE LET a == PyInt(data.age)
         IN  CASE a.err = "none" ->
                    [ok |-> TRUE, kind |-> "valid", field |-> "none",
                     raised |-> "none",
                     data |-> [data EXCEPT
                                 !.age = PyIntV(a.val),
                                 !.status = PyBoolV(CoerceStatus(data.status))]]
               [] a.err \in {"ValueError", "TypeError"} ->
                    [ok |-> FALSE, kind |-> "coercion", field |-> "none",
                     raised |-> "none", data |-> data]
               [] OTHER ->
                    [ok |-> FALSE, kind |-> "raised", field |-> "none",
                     raised |-> a.err, data |-> data]


(***************************************************************************)
(* File names: allowed_file and werkzeug's secure_filename.                *)
(***************************************************************************)
UpperCase == <<"A", "B", "C", "D", "E", "F", "G", "H", "I", "J", "K", "L", "M",
               "N", "O", "P", "Q", "R", "S", "T", "U", "V", "W", "X", "Y", "Z">>

LowerCase == <<"a", "b", "c", "d", "e", "f", "g", "h", "i", "j", "k", "l", "m",
               "n", "o", "p", "q", "r", "s", "t", "u", "v", "w", "x", "y", "z">>

\* str.lower() on one character
LowerChar(c) ==
    IF \E k \in 1..26 : UpperCase[k] = c
    THEN LowerCase[CHOOSE k \in 1..26 : UpperCase[k] = c]
    ELSE c

Lower(chars) == [k \in 1..Len(chars) |-> LowerChar(chars[k])]

ALLOWED_EXTENSIONS == {<<"c", "s", "v">>}

DotPositions(chars) == {k \in 1..Len(chars) : chars[k] = "."}

LastDot(chars) ==
    CHOOSE k \in DotPositions(chars) : \A j \in DotPositions(chars) : j <= k

\* filename.rsplit('.', 1)[1]
Extension(chars) == SubSeq(chars, LastDot(chars) + 1, Len(chars))

allowed_file(filename) ==
    /\ DotPositions(filename) # {}
    /\ Lower(Extension(filename)) \in ALLOWED_EXTENSIONS

IsSafeChar(c) ==
    \/ IsDigit(c)
    \/ \E k \in 1..26 : UpperCase[k] = c \/ LowerCase[k] = c
    \/ c \in {"_", ".", "-"}

\* the path separator becomes a blank; "_".join(filename.split()) then joins
\* the blank-separated parts; characters outside [A-Za-z0-9_.-] are dropped
RECURSIVE JoinParts(_, _)
JoinParts(chars, pending) ==
    IF chars = <<>> THEN <<>>
    ELSE LET c == Head(chars)
         IN  IF c \in {"/", " "} THEN JoinParts(Tail(chars), pending)
             ELSE (IF pending THEN <<"_">> ELSE <<>>)
                  \o (IF IsSafeChar(c) THEN <<c>> ELSE <<>>)
                  \o JoinParts(Tail(chars),
                               Len(chars) > 1 /\ chars[2] \in {"/", " "})

RECURSIVE StripLeft(_)
StripLeft(chars) ==
    IF chars # <<>> /\ Head(chars) \in {".", "_"}
    THEN StripLeft(Tail(chars))
    ELSE chars

RECURSIVE StripRight(_)
StripRight(chars) ==
    IF chars # <<>> /\ chars[Len(chars)] \in {".", "_"}
    THEN StripRight(SubSeq(chars, 1, Len(chars) - 1))
    ELSE chars

secure_filename(filename) == StripRight(StripLeft(JoinParts(filename, FALSE)))

(***************************************************************************)
(* State.  The server runs each request on its own thread; pc is the       *)
(* thread's place in its handler and the other per-thread variables are    *)
(* the handler's locals.  store is the 'personas' collection (document id  *)
(* to document), uploads the upload folder (path to file content).         *)
(* issued (the ids uuid4 has produced) and written (the documents an       *)
(* import has set, with the row of each) record history only.              *)
(*                                                                         *)
(* db is taken to be a Firestore client (initialize_firebase succeeded).   *)
(* A write of the import may raise, which its loop recovers from; the      *)
(* calls of the other handlers are taken to reach the store, so that a 500 *)
(* of theirs comes from the handler's own logic.  The body of an update is *)
(* a JSON object.                                                          *)
(***************************************************************************)
VARIABLES
    store, uploads, issued, served,
    pc, request, file_path, personas_data, index, inserted_count, errors,
    written, response,
    vdata, vresult

vars == <<store, uploads, issued, served,
          pc, request, file_path, personas_data, index, inserted_count,
          errors, written, response, vdata, vresult>>

shared == <<store, uploads, issued>>
locals == <<file_path, personas_data, index, inserted_count, errors, written>>
pure == <<vdata, vresult>>

Threads == {"t1", "t2"}

NoContent == [parsable |-> FALSE, cols |-> {}, rows |-> <<>>]

Table(cols, rows) == [parsable |-> TRUE, cols |-> cols, rows |-> rows]

NoArg == [given |-> FALSE, n |-> 0]

IntArg(n) == [given |-> TRUE, n |-> n]

\* A request holds its route (op) and what that route reads of it.
NoRequest == [op |-> "none"]

UploadRequest(has_file, filename, content) ==
    [op |-> "upload", has_file |-> has_file, filename |-> filename,
     content |-> content]

GetRequest(id) == [op |-> "get", person_id |-> id]

UpdateRequest(id, data) == [op |-> "update", person_id |-> id, data |-> data]

DeleteRequest(id) == [op |-> "delete", person_id |-> id]

ListRequest(limit, page) == [op |-> "list", limit |-> limit, page |-> page]

\* jsonify(body), status: the HTTP status and the keys of the body; kind
\* stands for the message
NoResponse == [status |-> 0, success |-> FALSE, kind |-> "none"]

Failure(status, kind) == [status |-> status, success |-> FALSE, kind |-> kind]

Success(kind) == [status |-> 200, success |-> TRUE, kind |-> kind]

NoPath == <<>>

InitShared ==
    /\ store = <<>>
    /\ uploads = <<>>
    /\ issued = {}
    /\ served = 0

InitThreads ==
    /\ pc = [t \in Threads |-> "idle"]
    /\ request = [t \in Threads |-> NoRequest]
    /\ file_path = [t \in Threads |-> NoPath]
    /\ personas_data = [t \in Threads |-> <<>>]
    /\ index = [t \in Threads |-> 0]
    /\ inserted_count = [t \in Threads |-> 0]
    /\ errors = [t \in Threads |-> <<>>]
    /\ written = [t \in Threads |-> {}]
    /\ response = [t \in Threads |-> NoResponse]

\* validate_persona_data has not been called
NoResult ==
    [ok |-> FALSE, kind |-> "pending", field |-> "none", raised |-> "none",
     data |-> Row({}, PyAbsent, PyAbsent)]

InitPure ==
    /\ vdata = Row({}, PyAbsent, PyAbsent)
    /\ vresult = NoResult

\* a handler returns: the thread holds the response it sends
Return(t, resp) ==
    /\ response' = [response EXCEPT ![t] = resp]
    /\ pc' = [pc EXCEPT ![t] = "done"]

(***************************************************************************)
(* upload_personas_csv                                                     *)
(***************************************************************************)
\* an id that does not vary from call to call
generate_fixed_id(used) == 1

\* uuid4().hex[:20]: 80 random bits.  A repeat has negligible probability;
\* the model draws the least id not drawn before.
generate_custom_id(used) == Cardinality(used) + 1

\* the one-based position of the row, without the header line
FileLineWithoutHeader(i) == i + 1

\* the file line of the row at zero-based position i (lines 120, 131)
FileLine(i) == i + 2

Rejection(i, kind, field) == [line |-> FileLine(i), kind |-> kind, field |-> field]

\* df.to_dict('records'): one dictionary per data row, over the header's columns
ToRecords(content) ==
    [k \in 1..Len(content.rows) |->
        Row(content.cols, content.rows[k].age, content.rows[k].status)]

\* lines 70-96: the request is checked and the payload saved
Upload_Receive(t, req) ==
    /\ pc[t] = "idle"
    /\ req.op = "upload"
    /\ request' = [request EXCEPT ![t] = req]
    /\ served' = served + 1
    /\ IF ~req.has_file
       THEN Return(t, Failure(400, "no_file")) /\ UNCHANGED <<uploads, file_path>>
       ELSE IF req.filename = <<>>
       THEN Return(t, Failure(400, "no_filename")) /\ UNCHANGED <<uploads, file_path>>
       ELSE IF ~allowed_file(req.filename)
       THEN Return(t, Failure(400, "bad_type")) /\ UNCHANGED <<uploads, file_path>>
       ELSE LET path == secure_filename(req.filename)
            IN  /\ file_path' = [file_path EXCEPT ![t] = path]
                /\ uploads' = (path :> req.content) @@ uploads
                /\ pc' = [pc EXCEPT ![t] = "parse"]
                /\ UNCHANGED response
    /\ UNCHANGED <<store, issued, personas_data, index, inserted_count,
                   errors, written, pure>>

\* lines 98-112: pd.read_csv of the saved path; it raises when the file is
\* gone or is no table, and the handler returns 400
Upload_Parse(t) ==
    /\ pc[t] = "parse"
    /\ IF file_path[t] \in DOMAIN uploads /\ uploads[file_path[t]].parsable
       THEN /\ personas_data' =
                  [personas_data EXCEPT ![t] = ToRecords(uploads[file_path[t]])]
            /\ inserted_count' = [inserted_count EXCEPT ![t] = 0]
            /\ errors' = [errors EXCEPT ![t] = <<>>]
            /\ index' = [index EXCEPT ![t] = 0]
            /\ pc' = [pc EXCEPT ![t] = "rows"]
            /\ UNCHANGED response
       ELSE /\ Return(t, Failure(400, "parse_error"))
            /\ UNCHANGED <<personas_data, inserted_count, errors, index>>
    /\ UNCHANGED <<shared, served, request, file_path, written, pure>>

\* lines 114-131: one pass of the loop, on the row at position index
Upload_Row(t) ==
    /\ pc[t] = "rows"
    /\ index[t] < Len(personas_data[t])
    /\ LET i == index[t]
           v == validate_persona_data(personas_data[t][i + 1])
           id == generate_custom_id(issued)
           reject(kind, field) ==
               /\ errors' = [errors EXCEPT
                               ![t] = Append(@, Rejection(i, kind, field))]
               /\ UNCHANGED <<store, inserted_count, written>>
       IN  /\ personas_data' = [personas_data EXCEPT ![t][i + 1] = v.data]
           /\ index' = [index EXCEPT ![t] = i + 1]
           /\ IF v.raised # "none"
              THEN reject("exception", v.raised) /\ UNCHANGED issued
              ELSE IF ~v.ok
              THEN reject(v.kind, v.field) /\ UNCHANGED issued
              ELSE /\ issued' = issued \cup {id}
                   /\ \/ \* document(custom_id).set(persona_data)
                         /\ store' = (id :> v.data) @@ store
                         /\ inserted_count' =
                               [inserted_count EXCEPT ![t] = @ + 1]
                         /\ written' = [written EXCEPT ![t] = @ \cup {<<id, i>>}]
                         /\ UNCHANGED errors
                      \/ \* the write raises
                         reject("exception", "storage")
    /\ UNCHANGED <<uploads, served, pc, request, file_path, response, pure>>

\* lines 136-147; errors is the empty list when the body has no such key
UploadBody(t) ==
    [success |-> TRUE,
     kind |-> "upload_done",
     inserted_count |-> inserted_count[t],
     total_records |-> Len(personas_data[t]),
     errors |-> errors[t],
     status |-> IF inserted_count[t] > 0 THEN 200 ELSE 400]

\* lines 133-153: os.remove of the saved path, then the response; a path that
\* is gone makes os.remove raise, which the outer handler turns into a 500
Upload_Finish(t) ==
    /\ pc[t] = "rows"
    /\ index[t] = Len(personas_data[t])
    /\ IF file_path[t] \in DOMAIN uploads
       THEN /\ uploads' = [p \in DOMAIN uploads \ {file_path[t]} |-> uploads[p]]
            /\ Return(t, UploadBody(t))
       ELSE /\ Return(t, Failure(500, "server_error"))
            /\ UNCHANGED uploads
    /\ UNCHANGED <<store, issued, served, request, locals, pure>>

\* the response is sent and the thread is free again
Respond(t) ==
    /\ pc[t] = "done"
    /\ pc' = [pc EXCEPT ![t] = "idle"]
    /\ request' = [request EXCEPT ![t] = NoRequest]
    /\ file_path' = [file_path EXCEPT ![t] = NoPath]
    /\ personas_data' = [personas_data EXCEPT ![t] = <<>>]
    /\ index' = [index EXCEPT ![t] = 0]
    /\ inserted_count' = [inserted_count EXCEPT ![t] = 0]
    /\ errors' = [errors EXCEPT ![t] = <<>>]
    /\ written' = [written EXCEPT ![t] = {}]
    /\ response' = [response EXCEPT ![t] = NoResponse]
    /\ UNCHANGED <<shared, served, pure>>

(***************************************************************************)
(* get_person, update_person, delete_person.  The Firestore calls of one   *)
(* handler are separate round trips: another thread's write can land       *)
(* between doc_ref.get() and the update or delete that follows it.         *)
(***************************************************************************)
Found(id) == [status |-> 200, success |-> TRUE, kind |-> "found", id |-> id]

NotFound == Failure(404, "not_found")

\* lines 195-208
get_person(t, req) ==
    /\ pc[t] = "idle"
    /\ req.op = "get"
    /\ request' = [request EXCEPT ![t] = req]
    /\ served' = served + 1
    /\ IF req.person_id \in DOMAIN store
       THEN Return(t, Found(req.person_id))
       ELSE Return(t, NotFound)
    /\ UNCHANGED <<shared, locals, pure>>

\* lines 213-216 and 219-220: the body is read, the document fetched
Update_Check(t, req) ==
    /\ pc[t] = "idle"
    /\ req.op = "update"
    /\ request' = [request EXCEPT ![t] = req]
    /\ served' = served + 1
    /\ IF req.person_id \in DOMAIN store
       THEN pc' = [pc EXCEPT ![t] = "update_write"] /\ UNCHANGED response
       ELSE Return(t, NotFound)
    /\ UNCHANGED <<shared, locals, pure>>

\* DocumentReference.update: the given fields replace the document's
MergeFields(doc, data) ==
    [fields |-> doc.fields \cup data.fields,
     age |-> IF "age" \in data.fields THEN data.age ELSE doc.age,
     status |-> IF "status" \in data.fields THEN data.status ELSE doc.status]

\* lines 217-218 and 221-224: update() raises NotFound for a document that
\* does not exist, which the handler turns into a 500
Update_Write(t) ==
    /\ pc[t] = "update_write"
    /\ LET id == request[t].person_id
       IN  IF id \in DOMAIN store
           THEN /\ store' = [store EXCEPT
                               ![id] = MergeFields(@, request[t].data)]
                /\ Return(t, Success("updated"))
           ELSE /\ Return(t, Failure(500, "server_error"))
                /\ UNCHANGED store
    /\ UNCHANGED <<uploads, issued, served, request, locals, pure>>

\* lines 229-231 and 234-235
Delete_Check(t, req) ==
    /\ pc[t] = "idle"
    /\ req.op = "delete"
    /\ request' = [request EXCEPT ![t] = req]
    /\ served' = served + 1
    /\ IF req.person_id \in DOMAIN store
       THEN pc' = [pc EXCEPT ![t] = "delete_write"] /\ UNCHANGED response
       ELSE Return(t, NotFound)
    /\ UNCHANGED <<shared, locals, pure>>

\* lines 232-233: delete() succeeds whether or not the document exists
Delete_Write(t) ==
    /\ pc[t] = "delete_write"
    /\ store' = [id \in DOMAIN store \ {request[t].person_id} |-> store[id]]
    /\ Return(t, Success("deleted"))
    /\ UNCHANGED <<uploads, issued, served, request, locals, pure>>

(***************************************************************************)
(* get_persons                                                             *)
(***************************************************************************)
\* request.args.get(name, default=..., type=int)
ArgOr(arg, default) == IF arg.given THEN arg.n ELSE default

\* lines 162-163
ClampLimit(limit) == IF limit > 10 THEN 10 ELSE limit

\* total // limit: the full pages only
PagesRoundedDown(total_count, limit) == total_count \div limit

\* line 186, for a limit other than 0
PagesOf(total_count, limit) == (total_count + limit - 1) \div limit

\* the document ids in the order the collection streams them
RECURSIVE Ascending(_)
Ascending(ids) ==
    IF ids = {} THEN <<>>
    ELSE LET least == CHOOSE i \in ids : \A j \in ids : i <= j
         IN  <<least>> \o Ascending(ids \ {least})

Smaller(a, b) == IF a < b THEN a ELSE b

\* lines 157-192: a negative offset or limit makes the query raise, and a
\* limit of 0 makes line 186 divide by zero; both become a 500
get_persons(t, req) ==
    /\ pc[t] = "idle"
    /\ req.op = "list"
    /\ request' = [request EXCEPT ![t] = req]
    /\ served' = served + 1
    /\ LET limit == ClampLimit(ArgOr(req.limit, 10))
           page == ArgOr(req.page, 1)
           offset == (page - 1) * limit
           total_count == Cardinality(DOMAIN store)
           docs == SubSeq(Ascending(DOMAIN store), offset + 1,
                          Smaller(offset + limit, total_count))
       IN  IF offset < 0 \/ limit <= 0
           THEN Return(t, Failure(500, "server_error"))
           ELSE Return(t, [status |-> 200, success |-> TRUE, kind |-> "list",
                           data |-> docs, total |-> total_count,
                           page |-> page, limit |-> limit,
                           pages |-> PagesOf(total_count, limit)])
    /\ UNCHANGED <<shared, locals, pure>>

(***************************************************************************)
(* Inputs.                                                                 *)
(***************************************************************************)
Text_abc == <<"a", "b", "c">>
Text_34 == <<"3", "4">>
Text_true == <<"t", "r", "u", "e">>
Text_false == <<"f", "a", "l", "s", "e">>
Text_yes == <<"y", "e", "s">>
Name_a_csv == <<"a", ".", "c", "s", "v">>
Name_b_CSV == <<"/", "b", ".", "C", "S", "V">>
Name_a_txt == <<"a", ".", "t", "x", "t">>
Name_csv == <<"c", "s", "v">>

SeqsUpTo(S, n) == UNION {[1..k -> S] : k \in 0..n}

\* what a cell of the age and of the status column can hold after read_csv
AgeValues == {PyIntV(34), PyStrV(Text_34), PyStrV(Text_abc), PyNaN, PyInf}
StatusValues == {PyBoolV(TRUE), PyStrV(Text_false)}

RowValues == [age : AgeValues, status : StatusValues]

\* headers that lack required columns
ShortHeaders == {RequiredSet \ {"age"}, RequiredSet \ {"email", "status"}}

Tables ==
    {Table(RequiredSet, rows) : rows \in SeqsUpTo(RowValues, MaxRows)}
    \cup {Table(cols, rows) :
            cols \in ShortHeaders,
            rows \in SeqsUpTo({[age |-> PyIntV(34), status |-> PyBoolV(TRUE)]},
                              MaxRows)}

RefusedUploads ==
    {UploadRequest(FALSE, <<>>, NoContent),
     UploadRequest(TRUE, <<>>, NoContent),
     UploadRequest(TRUE, Name_a_txt, NoContent),
     UploadRequest(TRUE, Name_csv, NoContent)}

ImportRequests ==
    RefusedUploads
    \cup {UploadRequest(TRUE, f, c) :
            f \in {Name_a_csv, Name_b_CSV}, c \in Tables \cup {NoContent}}

(***************************************************************************)
(* SpecImport: one import request, run alone.                              *)
(***************************************************************************)
InitImport == InitShared /\ InitThreads /\ InitPure

NextImport ==
    \E t \in {"t1"} :
        \/ served < 1 /\ \E req \in ImportRequests : Upload_Receive(t, req)
        \/ Upload_Parse(t)
        \/ Upload_Row(t)
        \/ Upload_Finish(t)
        \/ Respond(t)

SpecImport == InitImport /\ [][NextImport]_vars

(***************************************************************************)
(* SpecValidate: validate_persona_data applied to one row dictionary.      *)
(***************************************************************************)
ValidatorAges ==
    {PyIntV(34), PyStrV(Text_34), PyStrV(Text_abc), PyFloatV(37), PyNaN, PyInf,
     PyBoolV(TRUE)}

ValidatorStatuses ==
    {PyBoolV(TRUE), PyBoolV(FALSE), PyIntV(0), PyIntV(1), PyNaN,
     PyStrV(Text_true), PyStrV(<<"1">>), PyStrV(Text_yes),
     PyStrV(Text_false), PyStrV(<<"0">>), PyStrV(<<>>)}

ValidatorInputs ==
    {Row(fields, age, status) :
        fields \in {RequiredSet} \cup {RequiredSet \ {f} : f \in RequiredSet},
        age \in ValidatorAges, status \in ValidatorStatuses}

InitValidate ==
    /\ InitShared /\ InitThreads
    /\ vdata \in ValidatorInputs
    /\ vresult = NoResult

Validate ==
    /\ vresult = NoResult
    /\ vresult' = validate_persona_data(vdata)
    /\ UNCHANGED <<shared, served, pc, request, locals, response, vdata>>

NextValidate == Validate

SpecValidate == InitValidate /\ [][NextValidate]_vars

(***************************************************************************)
(* Properties of one import (SpecImport).                                  *)
(***************************************************************************)
\* the row breaks the required-field rule or the age/status conversion rule
RuleViolated(row) == MissingFields(row) # {} \/ PyInt(row.age).err # "none"

\* the rows of the payload a thread was sent, as uploaded
OwnRows(t) == ToRecords(request[t].content)

Completed(t) == pc[t] = "done" /\ response[t].kind = "upload_done"

StorageFailures(errs) ==
    {k \in 1..Len(errs) : errs[k].kind = "exception" /\ errs[k].field = "storage"}

\* C1: an import that got past parsing with N data rows completes with
\* inserted_count + number of rejection entries = N = total_records, and
\* when no storage write failed the number of rejection entries is K, the
\* number of rows that break the required-field or conversion rules.
C1_AcceptedPlusRejected ==
    \A t \in Threads :
        Completed(t) =>
            LET r == response[t]
                N == Len(OwnRows(t))
                K == Cardinality({k \in 1..N : RuleViolated(OwnRows(t)[k])})
            IN  /\ r.total_records = N
                /\ r.inserted_count + Len(r.errors) = N
                /\ StorageFailures(r.errors) = {} => Len(r.errors) = K

\* C1 witness: a completed import of three rows, with accepted and rejected
\* rows and no storage failure
C1_Witness ==
    \E t \in Threads :
        /\ Completed(t)
        /\ response[t].total_records = 3
        /\ response[t].inserted_count >= 1
        /\ Len(response[t].errors) >= 1
        /\ StorageFailures(response[t].errors) = {}

\* C2: an import that completes with zero accepted rows reports success
\* false, and one with at least one accepted row reports success true.
C2_ZeroAcceptedIsFailure ==
    \A t \in Threads :
        Completed(t) =>
            /\ response[t].inserted_count = 0 => response[t].success = FALSE
            /\ response[t].inserted_count > 0 => response[t].success = TRUE

\* C3: when the response of an import that saved its payload is returned,
\* on every exit path, the temporary file no longer exists.
C3_TempFileReleased ==
    \A t \in Threads :
        (pc[t] = "done" /\ file_path[t] # NoPath) =>
            file_path[t] \notin DOMAIN uploads

RowsWritten(t) == {w[2] : w \in written[t]}

IdsWritten(t) == {w[1] : w \in written[t]}

EntriesFor(errs, i) == {k \in 1..Len(errs) : errs[k].line = i + 2}

\* C4: a storage write failure for a row is recorded as one rejection entry
\* for that row and processing goes on: every processed row is either
\* written (once) or has exactly one rejection entry, the rows to come are
\* processed before the import completes, the documents written stay in the
\* store, and the documents the import added are exactly the rows counted
\* as accepted.
C4_StorageFailureIsolated ==
    \A t \in Threads :
        pc[t] = "rows" \/ Completed(t) =>
            /\ \A i \in 0..(index[t] - 1) :
                  IF i \in RowsWritten(t)
                  THEN EntriesFor(errors[t], i) = {}
                  ELSE Cardinality(EntriesFor(errors[t], i)) = 1
            /\ \A k \in StorageFailures(errors[t]) :
                  ~RuleViolated(OwnRows(t)[errors[t][k].line - 1])
            /\ \A i \in 0..(index[t] - 1) :
                  ~RuleViolated(OwnRows(t)[i + 1]) =>
                      \/ i \in RowsWritten(t)
                      \/ \E k \in StorageFailures(errors[t]) :
                            errors[t][k].line = i + 2
            /\ IdsWritten(t) \subseteq DOMAIN store
            /\ DOMAIN store = IdsWritten(t)
            /\ Cardinality(IdsWritten(t)) = inserted_count[t]
            /\ Cardinality(RowsWritten(t)) = inserted_count[t]
            /\ Completed(t) =>
                  /\ index[t] = Len(OwnRows(t))
                  /\ response[t].inserted_count = Cardinality(DOMAIN store)

\* C4 witness: a completed import whose second row failed in storage, with
\* the first and the third row written
C4_Witness ==
    \E t \in Threads :
        /\ Completed(t)
        /\ RowsWritten(t) = {0, 2}
        /\ \E k \in StorageFailures(errors[t]) : errors[t][k].line = 3
        /\ Cardinality(DOMAIN store) = 2

\* the rejection entry the row at zero-based position i gets from validation
ExpectedEntry(row, i) ==
    CASE MissingFields(row) # {} ->
            [line |-> i + 2, kind |-> "missing", field |-> FirstMissing(row)]
      [] PyInt(row.age).err \in {"ValueError", "TypeError"} ->
            [line |-> i + 2, kind |-> "coercion", field |-> "none"]
      [] OTHER ->
            [line |-> i + 2, kind |-> "exception", field |-> PyInt(row.age).err]

\* C5: the rejection list is in strictly increasing file-line order, and the
\* entry for the row at zero-based position i carries line i + 2, for a row
\* rejected by validation as for one rejected by a storage failure.
C5_RejectionsInFileLineOrder ==
    \A t \in Threads :
        pc[t] = "rows" \/ Completed(t) =>
            LET errs == errors[t]
            IN  /\ \A k \in 1..(Len(errs) - 1) : errs[k].line < errs[k + 1].line
                /\ \A k \in 1..Len(errs) :
                      /\ errs[k].line \in 2..(index[t] + 1)
                      /\ LET i == errs[k].line - 2
                             row == OwnRows(t)[i + 1]
                         IN  IF k \in StorageFailures(errs)
                             THEN ~RuleViolated(row) /\ i \notin RowsWritten(t)
                             ELSE RuleViolated(row)
                                  /\ errs[k] = ExpectedEntry(row, i)
                /\ \A i \in 0..(index[t] - 1) :
                      RuleViolated(OwnRows(t)[i + 1]) =>
                          \E k \in 1..Len(errs) : errs[k].line = i + 2
                /\ Completed(t) => response[t].errors = errs

\* C5 witness: a completed import whose rejection list holds a validation
\* rejection of the first row (line 2) and a storage rejection of the third
\* (line 4), the second row written
C5_Witness ==
    \E t \in Threads :
        /\ Completed(t)
        /\ Len(response[t].errors) = 2
        /\ response[t].errors[1].line = 2
        /\ response[t].errors[1].kind \in {"missing", "coercion"}
        /\ response[t].errors[2].line = 4
        /\ 2 \in StorageFailures(response[t].errors)
        /\ RowsWritten(t) = {1}

(***************************************************************************)
(* Properties of the row validator (SpecValidate).                         *)
(***************************************************************************)
\* the texts the status rule names as false
FalseTokens == {Text_false, <<"0">>, <<>>}

\* C8: status coercion maps the texts "true", "1" and any other non-empty
\* text that is no false token to true, the texts "false", "0" and "" to
\* false, and passes a boolean through unchanged.
C8_StatusCoercion ==
    vresult.kind = "valid" =>
        /\ vdata.status.t = "str" =>
              vresult.data.status = PyBoolV(vdata.status.s \notin FalseTokens)
        /\ vdata.status.t = "bool" => vresult.data.status = vdata.status

(***************************************************************************)
(* Spec: the threaded server, two requests at a time, over imports and the *)
(* single-document handlers.                                               *)
(***************************************************************************)
ValidRow == [age |-> PyIntV(34), status |-> PyBoolV(TRUE)]

BadAgeRow == [age |-> PyStrV(Text_abc), status |-> PyBoolV(TRUE)]

ServerTables ==
    {Table(RequiredSet, <<ValidRow>>), Table(RequiredSet, <<BadAgeRow, ValidRow>>)}

\* JSON bodies of an update
UpdateBodies ==
    {Row({"age"}, PyStrV(Text_abc), PyAbsent),
     Row({"status", "name"}, PyAbsent, PyBoolV(FALSE))}

\* ids a client can name: those issued so far, and 0, which never is
KnownIds == 0..Cardinality(issued)

ServerRequests ==
    {UploadRequest(TRUE, Name_a_txt, NoContent)}
    \cup {UploadRequest(TRUE, f, c) :
            f \in {Name_a_csv, Name_b_CSV}, c \in ServerTables \cup {NoContent}}
    \cup {GetRequest(id) : id \in KnownIds}
    \cup {UpdateRequest(id, d) : id \in KnownIds, d \in UpdateBodies}
    \cup {DeleteRequest(id) : id \in KnownIds}

Init == InitShared /\ InitThreads /\ InitPure

Next ==
    \E t \in Threads :
        \/ served < MaxRequests /\ \E req \in ServerRequests : Upload_Receive(t, req)
        \/ served < MaxRequests /\ \E req \in ServerRequests : get_person(t, req)
        \/ served < MaxRequests /\ \E req \in ServerRequests : Update_Check(t, req)
        \/ served < MaxRequests /\ \E req \in ServerRequests : Delete_Check(t, req)
        \/ Upload_Parse(t)
        \/ Upload_Row(t)
        \/ Upload_Finish(t)
        \/ Update_Write(t)
        \/ Delete_Write(t)
        \/ Respond(t)

Spec == Init /\ [][Next]_vars

(***************************************************************************)
(* SpecList: list requests over a collection of any size up to MaxTotal.   *)
(***************************************************************************)
StoredPerson == Row(RequiredSet, PyIntV(34), PyBoolV(TRUE))

LimitArgs == {NoArg, IntArg(50)} \cup {IntArg(n) : n \in (0 - 2)..MaxLimit}

PageArgs == {NoArg} \cup {IntArg(n) : n \in 0..MaxPage}

ListRequests == {ListRequest(l, p) : l \in LimitArgs, p \in PageArgs}

InitList ==
    /\ \E n \in 0..MaxTotal :
          /\ store = [id \in 1..n |-> StoredPerson]
          /\ issued = 1..n
    /\ uploads = <<>>
    /\ served = 0
    /\ InitThreads /\ InitPure

NextList ==
    \E t \in {"t1"} :
        \/ served < MaxRequests /\ \E req \in ListRequests : get_persons(t, req)
        \/ Respond(t)

SpecList == InitList /\ [][NextList]_vars

(***************************************************************************)
(* Properties of the threaded server (Spec).                               *)
(***************************************************************************)
\* a step in which thread t's handler returns
Returns(t) == pc[t] # "done" /\ pc'[t] = "done"

\* C6: a get, update or delete for an id that has no document returns the
\* not-found outcome (404, success false), never a 500, and leaves the store
\* unchanged, in every interleaving: also when the document was deleted
\* between the handler's existence check and its write.
C6_AbsentIdIsNotFound ==
    [][\A t \in Threads :
          (/\ Returns(t)
           /\ request'[t].op \in {"get", "update", "delete"}
           /\ request'[t].person_id \notin DOMAIN store)
          => (/\ response'[t].status = 404
              /\ response'[t].success = FALSE
              /\ store' = store)]_vars

\* the rejection entries an import running alone makes for the rows that
\* break the validation rules, in row order
RECURSIVE AloneRejections(_, _)
AloneRejections(rows, i) ==
    IF i >= Len(rows) THEN <<>>
    ELSE (IF RuleViolated(rows[i + 1])
          THEN <<ExpectedEntry(rows[i + 1], i)>>
          ELSE <<>>)
         \o AloneRejections(rows, i + 1)

ValidationEntries(errs) ==
    LET NotStorage(e) == ~(e.kind = "exception" /\ e.field = "storage")
    IN  SelectSeq(errs, NotStorage)

\* C7: whatever another import does at the same time, also one that uploads
\* the same file name, an import's outcome is the one it has running alone
\* on its own payload: a parse failure for a payload that is no table, and
\* otherwise its own total, its own validation rejections, and a status
\* that follows its accepted count.
C7_ImportsIndependent ==
    \A t \in Threads :
        (pc[t] = "done" /\ request[t].op = "upload" /\ file_path[t] # NoPath) =>
            LET r == response[t]
            IN  IF ~request[t].content.parsable
                THEN r.kind = "parse_error" /\ r.status = 400
                ELSE /\ r.kind = "upload_done"
                     /\ r.total_records = Len(OwnRows(t))
                     /\ r.inserted_count + Len(r.errors) = r.total_records
                     /\ ValidationEntries(r.errors) = AloneRejections(OwnRows(t), 0)
                     /\ r.status = IF r.inserted_count > 0 THEN 200 ELSE 400

\* C9: after any sequence of import, update and delete requests, every
\* document an import created has all ten required fields, an integer age
\* and a boolean status (every document of the store is created by an
\* import).
C9_StoredPersonsWellTyped ==
    \A id \in DOMAIN store :
        /\ RequiredSet \subseteq store[id].fields
        /\ store[id].age.t = "int"
        /\ store[id].status.t = "bool"

(***************************************************************************)
(* Properties of listing (SpecList).                                       *)
(***************************************************************************)
\* ceiling(total / limit) for a limit of at least 1: the least number of
\* pages of that size that hold total records
Ceiling(total, limit) ==
    CHOOSE p \in 0..total :
        /\ p * limit >= total
        /\ \A q \in 0..(p - 1) : q * limit < total

Listed(t) == pc[t] = "done" /\ request[t].op = "list"

\* C10 as stated: for every list request, whatever limit is requested, the
\* response reports limit = min(requested limit, 10), holds at most that
\* many records, and reports pages = ceiling(total / limit).
C10_AnyLimit ==
    \A t \in Threads :
        Listed(t) =>
            LET r == response[t]
                asked == ArgOr(request[t].limit, 10)
            IN  /\ r.kind = "list"
                /\ r.limit = Smaller(asked, 10)
                /\ Len(r.data) <= r.limit
                /\ r.pages = Ceiling(r.total, r.limit)

\* C10 amended: for every list request that asks for a limit of at least 1
\* and a page of at least 1 (or leaves them to their defaults), the
\* response is a 200 that reports limit = min(requested limit, 10), holds
\* at most that many records, reports the collection's size as total and
\* pages = ceiling(total / limit).
C10_PositiveLimit ==
    \A t \in Threads :
        (/\ Listed(t)
         /\ ArgOr(request[t].limit, 10) >= 1
         /\ ArgOr(request[t].page, 1) >= 1) =>
            LET r == response[t]
            IN  /\ r.kind = "list" /\ r.status = 200 /\ r.success
                /\ r.limit = Smaller(ArgOr(request[t].limit, 10), 10)
                /\ Len(r.data) <= r.limit
                /\ r.total = Cardinality(DOMAIN store)
                /\ r.pages = Ceiling(r.total, r.limit)

\* C10 witness: limit=50 over 25 documents is answered with limit 10, ten
\* records and 3 pages
C10_Witness ==
    \E t \in Threads :
        /\ Listed(t)
        /\ request[t].limit = IntArg(50)
        /\ response[t].kind = "list"
        /\ response[t].limit = 10
        /\ response[t].total = 25
        /\ Len(response[t].data) = 10
        /\ response[t].pages = 3

=============================================================================
